---- MODULE Spec2Model ----
(***************************************************************************)
(* Simulator adapters of vunit/sim_if: the synopsys_sim.setup file handler *)
(* (vcs_setup_file.py), the VCS library mapper, the compile-command        *)
(* builders of the VCS, Icarus Verilog and Vivado adapters and their       *)
(* simulate steps.                                                         *)
(*                                                                         *)
(* A text is a sequence of one-character strings; "\n" is the line break.  *)
(***************************************************************************)
EXTENDS Integers, Sequences, FiniteSets, TLC

VARIABLES
    setupFile,      \* contents of the synopsys_sim.setup file
    sf,             \* <<>> or <<the SetupFile instance in hand>>
    trace,          \* the write/parse operations performed so far, with their texts
    mapped,         \* the dict _get_mapped_libraries returned last ({} before)
    dirs,           \* the directories that exist
    calls,          \* the last two create_library calls, oldest first
    ncalls,         \* number of create_library calls so far
    argsFiles,      \* the .args files on disk: name -> contents
    cmds,           \* the compile-command calls so far, with what each wrote and returned
    iverilog,       \* IVerilogInterface: _source_files and _compile_options
    vivado,         \* VivadoInterface: _source_files and _libraries
    log_level,      \* VCSInterface: _log_level
    elabs,          \* the elaborate calls so far, with what each wrote and returned
    sims,           \* the simulate calls so far, with the processes each ran
    base_attrs      \* whether SimulatorInterface supplies _coverage_files and _binaries_path

setupVars   == <<setupFile, sf, trace>>
vcsVars     == <<mapped, dirs, calls, ncalls>>
compileVars == <<argsFiles, cmds, iverilog, vivado, log_level, elabs>>

simVars     == <<sims, base_attrs>>

vars == <<setupVars, vcsVars, compileVars, simVars>>

-----------------------------------------------------------------------------
(* Bounds of the model *)

MaxFileLen == 5     \* longest setup file the environment supplies
MaxLibs    == 2     \* most entries of a constructed mapping
MaxOther   == 1     \* most preserved lines of a constructed SetupFile
MaxOps     == 3     \* most write/parse operations in one run
MaxCalls   == 2     \* most create_library calls in one run
MaxProject == 2     \* most libraries of a project
MaxCompiles == 2    \* most compile-command calls in one run
MaxSims    == 2     \* most simulate calls in one run
MaxValueLen == 4    \* longest macro value of a source file
MaxNameLen == 3     \* longest test identifier handed to the sanitizer

-----------------------------------------------------------------------------
(* Characters *)

NL == "\n"

\* The characters of the model, in increasing code point (Python compares
\* strings code point by code point).
CodeOrder == <<"\n", " ", "#", "-", ":", "a", "b">>

Ord(c) == CHOOSE i \in 1..Len(CodeOrder) : CodeOrder[i] = c

\* [a-zA-Z0-9_] restricted to the characters of the model
NameChars == {"a", "b"}

\* \s restricted to the characters of the model; a line holds no "\n"
SpaceChars == {" ", "\n"}

-----------------------------------------------------------------------------
(* Text helpers *)

RECURSIVE Join(_, _)
\* sep.join(texts)
Join(texts, sep) ==
    IF texts = <<>> THEN <<>>
    ELSE IF Len(texts) = 1 THEN texts[1]
    ELSE texts[1] \o sep \o Join(Tail(texts), sep)

\* index of the first line break of s, 0 when it has none
FirstBreak(s) ==
    IF \E i \in 1..Len(s) : s[i] = NL
    THEN CHOOSE i \in 1..Len(s) : s[i] = NL /\ \A j \in 1..(i-1) : s[j] # NL
    ELSE 0

RECURSIVE SplitLines(_)
\* str.splitlines(): no empty last line after a final line break, "" has no line
SplitLines(s) ==
    IF s = <<>> THEN <<>>
    ELSE LET k == FirstBreak(s)
         IN IF k = 0 THEN <<s>>
            ELSE <<SubSeq(s, 1, k-1)>> \o SplitLines(SubSeq(s, k+1, Len(s)))

\* s < t for Python strings
RECURSIVE StrLess(_, _)
StrLess(s, t) ==
    IF t = <<>> THEN FALSE
    ELSE IF s = <<>> THEN TRUE
    ELSE IF s[1] = t[1] THEN StrLess(Tail(s), Tail(t))
    ELSE Ord(s[1]) < Ord(t[1])

\* number of leading characters of s, from position i on, that are in cls
RECURSIVE Run(_, _, _)
Run(s, i, cls) ==
    IF i > Len(s) \/ s[i] \notin cls THEN 0 ELSE 1 + Run(s, i+1, cls)

-----------------------------------------------------------------------------
(* SetupFile: a dict (insertion-ordered sequence of <<name, path>>) plus   *)
(* the other lines                                                         *)

\* _re_libdefine.match(line): <<>> when the line does not match, else
\* <<group(1), group(2)>>.  \s*([a-zA-Z0-9_]+)\s*:\s*(.*?)(#|$)
ReLibdefine(line) ==
    LET n    == Len(line)
        i0   == 1 + Run(line, 1, SpaceChars)
        nlen == Run(line, i0, NameChars)
        i1   == i0 + nlen
        i2   == i1 + Run(line, i1, SpaceChars)
        i3   == i2 + 1 + Run(line, i2 + 1, SpaceChars)
        plen == Run(line, i3, {c \in {line[k] : k \in 1..n} : c # "#"})
    IN  IF nlen = 0 \/ i2 > n \/ line[i2] # ":" THEN <<>>
        ELSE << <<SubSeq(line, i0, i1 - 1), SubSeq(line, i3, i3 + plen - 1)>> >>

IsLibdefine(line) == ReLibdefine(line) # <<>>

\* d[name] = path on a dict: an existing key keeps its position
DictSet(d, name, path) ==
    IF \E i \in 1..Len(d) : d[i][1] = name
    THEN [i \in 1..Len(d) |-> IF d[i][1] = name THEN <<name, path>> ELSE d[i]]
    ELSE Append(d, <<name, path>>)

DictHas(d, name) == \E i \in 1..Len(d) : d[i][1] = name

DictGet(d, name) == d[CHOOSE i \in 1..Len(d) : d[i][1] = name][2]

\* SetupFile(libdefines, other_lines)
SetupFileInit(libdefines, other_lines) ==
    [libdefines |-> libdefines, other_lines |-> other_lines]

RECURSIVE ParseLinesSkipBlank(_, _)
\* a parse loop that drops blank lines instead of keeping them
ParseLinesSkipBlank(lines, acc) ==
    IF lines = <<>> THEN acc
    ELSE LET m == ReLibdefine(lines[1])
         IN ParseLinesSkipBlank(Tail(lines),
                IF lines[1] = <<>> THEN acc
                ELSE IF m = <<>>
                THEN [acc EXCEPT !.other_lines = Append(@, lines[1])]
                ELSE [acc EXCEPT !.libdefines = DictSet(@, m[1][1], m[1][2])])

RECURSIVE ParseLines(_, _)
\* the loop of SetupFile.parse over the lines still to read
ParseLines(lines, acc) ==
    IF lines = <<>> THEN acc
    ELSE LET m == ReLibdefine(lines[1])
         IN ParseLines(Tail(lines),
                IF m = <<>>
                THEN [acc EXCEPT !.other_lines = Append(@, lines[1])]
                ELSE [acc EXCEPT !.libdefines = DictSet(@, m[1][1], m[1][2])])

\* SetupFile.parse on the contents read_file returns
SetupFileParse(contents) ==
    ParseLines(SplitLines(contents), SetupFileInit(<<>>, <<>>))

\* the items in insertion order: what a write that forgot sorted() would emit
Unsorted(items) == items

RECURSIVE Sorted(_)
\* sorted(self.items()): keys are unique, so the order is the order of names
Sorted(items) ==
    IF items = <<>> THEN <<>>
    ELSE LET m == CHOOSE i \in 1..Len(items) :
                      \A j \in 1..Len(items) :
                          j # i => StrLess(items[i][1], items[j][1])
             rest == [k \in 1..(Len(items) - 1) |->
                         IF k < m THEN items[k] ELSE items[k+1]]
         IN <<items[m]>> \o Sorted(rest)

\* '%s : %s' % item
FormatItem(item) == item[1] \o <<" ", ":", " ">> \o item[2]

\* the contents SetupFile.write hands to write_file
SetupFileWrite(obj) ==
    LET libs == Sorted(obj.libdefines)
    IN Join(obj.other_lines \o [i \in 1..Len(libs) |-> FormatItem(libs[i])],
            <<NL>>) \o <<NL>>

-----------------------------------------------------------------------------
(* Inputs of the setup-file handler *)

\* all texts over chars of length at most n
Texts(chars, n) == UNION {[1..k -> chars] : k \in 0..n}

\* setup files found on disk
FileChars == {NL, " ", "#", ":", "a", "b"}
Files == Texts(FileChars, MaxFileLen)

\* library names and paths handed to the SetupFile constructor
Names == {<<"a">>, <<"b">>, <<"a", "-">>}
Paths == {<<"a">>, <<"a", "#", "b">>, <<" ", "a">>, <<>>}

\* lines that are no library definition, handed over as other_lines
PreservedLines == {<<>>, <<"#", "a">>, <<"a", " ", "b">>}

\* dicts of at most n entries, in every insertion order
Dicts(n) ==
    {d \in UNION {[1..k -> Names \X Paths] : k \in 0..n} :
        \A i, j \in 1..Len(d) : i # j => d[i][1] # d[j][1]}

Constructed ==
    {SetupFileInit(d, o) :
        d \in Dicts(MaxLibs),
        o \in UNION {[1..k -> PreservedLines] : k \in 0..MaxOther}}

-----------------------------------------------------------------------------
(* The setup-file handler on its own: SetupFile.parse and SetupFile.write  *)
(* applied in any order to a file found on disk or to a constructed        *)
(* SetupFile                                                               *)

VcsIdle == mapped = <<>> /\ dirs = {} /\ calls = <<>> /\ ncalls = 0

\* the adapters as their constructors leave them, no .args file written
CompileIdle ==
    /\ argsFiles = <<>>
    /\ cmds = <<>>
    /\ iverilog = [source_files |-> <<>>, compile_options |-> <<>>]
    /\ vivado = [source_files |-> <<>>, libraries |-> <<>>]
    /\ log_level = "info"
    /\ elabs = <<>>

\* no simulate call made
SimIdle == sims = <<>> /\ base_attrs = FALSE

InitSetup ==
    /\ trace = <<>>
    /\ VcsIdle
    /\ CompileIdle
    /\ SimIdle
    /\ \/ setupFile \in Files /\ sf = <<>>
       \/ setupFile = <<>> /\ sf \in {<<o>> : o \in Constructed}

\* SetupFile.parse(file_name)
Parse ==
    /\ Len(trace) < MaxOps
    /\ sf' = <<SetupFileParse(setupFile)>>
    /\ trace' = Append(trace, [op |-> "parse", text |-> setupFile, obj |-> sf'[1]])
    /\ UNCHANGED <<setupFile, vcsVars, compileVars, simVars>>

\* self.write(file_name)
Write ==
    /\ Len(trace) < MaxOps
    /\ sf # <<>>
    /\ setupFile' = SetupFileWrite(sf[1])
    /\ trace' = Append(trace, [op |-> "write", text |-> setupFile', obj |-> sf[1]])
    /\ UNCHANGED <<sf, vcsVars, compileVars, simVars>>

NextSetup == Parse \/ Write

SpecSetup == InitSetup /\ [][NextSetup]_vars

-----------------------------------------------------------------------------
(* Claims about the setup-file handler *)

NotLibdefine(line) == ~IsLibdefine(line)

\* C1: writing a mapping, parsing the result and writing it again gives
\* output identical to the first write.
C1_RoundTrip ==
    \A i \in 1..(Len(trace) - 2) :
        (trace[i].op = "write" /\ trace[i+1].op = "parse" /\ trace[i+2].op = "write")
            => trace[i+2].text = trace[i].text

\* C2: parse followed by write keeps the lines that are no library
\* definition unmodified and in their order, as the first lines of the
\* output; every later line is a library definition (a file without any
\* line is written back as one blank line).
C2_OtherLinesKept ==
    \A i \in 1..(Len(trace) - 1) :
        (trace[i].op = "parse" /\ trace[i+1].op = "write") =>
            LET inLines == SplitLines(trace[i].text)
                kept    == SelectSeq(inLines, NotLibdefine)
                out     == SplitLines(trace[i+1].text)
            IN  /\ Len(out) >= Len(kept)
                /\ SubSeq(out, 1, Len(kept)) = kept
                /\ \/ \A k \in (Len(kept) + 1)..Len(out) : IsLibdefine(out[k])
                   \/ inLines = <<>> /\ out = << <<>> >>

\* C2's case: a parsed file in which a library definition precedes a line
\* that is none, written back
C2_Witness ==
    \E i \in 1..(Len(trace) - 1) :
        /\ trace[i].op = "parse" /\ trace[i+1].op = "write"
        /\ LET inLines == SplitLines(trace[i].text)
           IN \E j, k \in 1..Len(inLines) :
                 j < k /\ IsLibdefine(inLines[j]) /\ NotLibdefine(inLines[k])

\* C3: the output of write ends with a line break and holds the other
\* lines followed by one line "name : path" per entry of the mapping, by
\* increasing name.
C3_WriteSorted ==
    \A i \in 1..Len(trace) :
        trace[i].op = "write" =>
            LET items == trace[i].obj.libdefines
                other == trace[i].obj.other_lines
                text  == trace[i].text
                out   == SplitLines(text)
                n     == Len(items)
                base  == Len(out) - n
            IN  /\ text # <<>> /\ text[Len(text)] = NL
                /\ base >= 0
                /\ \/ SubSeq(out, 1, base) = other
                   \/ other = <<>> /\ n = 0 /\ out = << <<>> >>
                /\ \A k \in 1..n : \E j \in 1..n :
                       out[base + k] = items[j][1] \o <<" ", ":", " ">> \o items[j][2]
                /\ \A j \in 1..n : \E k \in 1..n :
                       out[base + k] = items[j][1] \o <<" ", ":", " ">> \o items[j][2]
                /\ \A k \in 1..(n - 1) : \E j1, j2 \in 1..n :
                       /\ out[base + k] = FormatItem(items[j1])
                       /\ out[base + k + 1] = FormatItem(items[j2])
                       /\ StrLess(items[j1][1], items[j2][1])

\* C3's case: a mapping whose insertion order is not the order of its names,
\* written after a preserved line
C3_Witness ==
    \E i \in 1..Len(trace) :
        /\ trace[i].op = "write"
        /\ trace[i].obj.other_lines # <<>>
        /\ \E j \in 1..(Len(trace[i].obj.libdefines) - 1) :
              StrLess(trace[i].obj.libdefines[j+1][1], trace[i].obj.libdefines[j][1])

-----------------------------------------------------------------------------
(* VCSInterface: the library mapper                                        *)

\* The header _create_vcssetup writes when there is no setup file.  Each of
\* its five lines starts with "--", so none is a library definition; it is
\* abbreviated here to its line "-- DEFAULT : <path>".
HeaderContents == <<"-", "-", " ", "a", " ", ":", " ", "a", NL>>

\* Setup files a VCSInterface can start from: the header it writes itself,
\* or a file that exists already (reused, or copied from SYNOPSYS_SIM_SETUP)
SeedFiles ==
    { HeaderContents,
      <<>>,
      <<"b", ":", "a", NL, NL, "#", NL, "a", " ", ":", "b", "#", "a", NL>> }

\* library names and directories of a project
LibNames == {<<"a">>, <<"b">>, <<"a", "-">>}
LibPaths == {<<"a">>, <<"b">>, <<"a", "#", "b">>}

\* projects: libraries with unique names
Projects ==
    {p \in UNION {[1..k -> LibNames \X LibPaths] : k \in 1..MaxProject} :
        \A i, j \in 1..Len(p) : i # j => p[i][1] # p[j][1]}

\* the two most recent entries of a call history
LastTwo(h) == IF Len(h) <= 2 THEN h ELSE SubSeq(h, Len(h) - 1, Len(h))

\* a create_library that forgot its early return
NeverMapped(existing, name, path) == FALSE

\* library_name in mapped_libraries and mapped_libraries[library_name] == library_path
AlreadyMapped(existing, name, path) ==
    DictHas(existing, name) /\ DictGet(existing, name) = path

\* create_library(library_name, library_path, mapped_libraries) on the state
\* st = [file, dirs, calls, n]; existing is {} for mapped_libraries=None
CreateLibraryOn(st, name, path, existing) ==
    LET made == st.dirs \cup {path, path \o <<"/", "6", "4">>}
        hit  == AlreadyMapped(existing, name, path)
        vcs  == SetupFileParse(st.file)
        set  == [vcs EXCEPT !.libdefines = DictSet(@, name, path)]
        out  == IF hit THEN st.file ELSE SetupFileWrite(set)
        rec  == [name |-> name, path |-> path, existing |-> existing,
                 before |-> st.file, after |-> out,
                 parsed |-> ~hit, wrote |-> ~hit]
    IN  [file |-> out, dirs |-> made,
         calls |-> LastTwo(Append(st.calls, rec)), n |-> st.n + 1]

RECURSIVE MapLibraries(_, _, _)
\* the loop of setup_library_mapping over the libraries still to map
MapLibraries(st, libs, existing) ==
    IF libs = <<>> THEN st
    ELSE MapLibraries(CreateLibraryOn(st, libs[1][1], libs[1][2], existing),
                      Tail(libs), existing)

VcsState == [file |-> setupFile, dirs |-> dirs, calls |-> calls, n |-> ncalls]

VcsBecomes(st) ==
    /\ setupFile' = st.file
    /\ dirs' = st.dirs
    /\ calls' = st.calls
    /\ ncalls' = st.n

\* __init__ and _create_vcssetup
InitVCS ==
    /\ setupFile \in SeedFiles
    /\ sf = <<>> /\ trace = <<>>
    /\ VcsIdle
    /\ CompileIdle
    /\ SimIdle

\* _get_mapped_libraries()
GetMappedLibraries ==
    /\ mapped' = SetupFileParse(setupFile).libdefines
    /\ mapped' # mapped
    /\ UNCHANGED <<setupFile, sf, trace, dirs, calls, ncalls, compileVars, simVars>>

\* create_library(name, path): mapped_libraries is None
CreateLibraryDefault ==
    /\ ncalls < MaxCalls
    /\ \E name \in LibNames, path \in LibPaths :
           VcsBecomes(CreateLibraryOn(VcsState, name, path, <<>>))
    /\ UNCHANGED <<sf, trace, mapped, compileVars, simVars>>

\* create_library(name, path, mapped_libraries) with the dict read earlier
CreateLibraryMapped ==
    /\ ncalls < MaxCalls
    /\ \E name \in LibNames, path \in LibPaths :
           VcsBecomes(CreateLibraryOn(VcsState, name, path, mapped))
    /\ UNCHANGED <<sf, trace, mapped, compileVars, simVars>>

\* setup_library_mapping(project); self._libraries, which nothing reads, is
\* left out
SetupLibraryMapping ==
    \E project \in Projects :
        /\ ncalls + Len(project) <= MaxCalls
        /\ mapped' = SetupFileParse(setupFile).libdefines
        /\ VcsBecomes(MapLibraries(VcsState, project, mapped'))
        /\ UNCHANGED <<sf, trace, compileVars, simVars>>

NextVCS ==
    \/ GetMappedLibraries
    \/ CreateLibraryDefault
    \/ CreateLibraryMapped
    \/ SetupLibraryMapping

SpecVCS == InitVCS /\ [][NextVCS]_vars

-----------------------------------------------------------------------------
(* Claims about the library mapper *)

\* whether dict d maps name to path
Maps(d, name, path) ==
    \E i \in 1..Len(d) : d[i][1] = name /\ d[i][2] = path

\* C4: a create_library call whose mapped_libraries already maps the name
\* to the path neither parses nor writes the setup file, which stays as it
\* was.
C4_MappedIsNoop ==
    \A i \in 1..Len(calls) :
        Maps(calls[i].existing, calls[i].name, calls[i].path) =>
            /\ ~calls[i].parsed
            /\ ~calls[i].wrote
            /\ calls[i].after = calls[i].before

\* C4's case: such a call on a setup file that a rewrite would have changed
C4_Witness ==
    \E i \in 1..Len(calls) :
        /\ Maps(calls[i].existing, calls[i].name, calls[i].path)
        /\ LET vcs == SetupFileParse(calls[i].before)
           IN SetupFileWrite([vcs EXCEPT !.libdefines =
                                 DictSet(@, calls[i].name, calls[i].path)])
                  # calls[i].before

\* C5: of two create_library calls in a row with the same name, path and
\* mapped_libraries, the second leaves the setup file as the first left it.
C5_TwiceIsOnce ==
    (/\ Len(calls) = 2
     /\ calls[1].name = calls[2].name
     /\ calls[1].path = calls[2].path
     /\ calls[1].existing = calls[2].existing
     /\ calls[1].after = calls[2].before)
        => calls[2].after = calls[2].before

\* C6: after a create_library call whose mapped_libraries does not map the
\* name to the path, the parsed setup file maps the name to the path and
\* maps every other name as it did before.
C6_Persisted ==
    \A i \in 1..Len(calls) :
        ~Maps(calls[i].existing, calls[i].name, calls[i].path) =>
            LET was == SetupFileParse(calls[i].before).libdefines
                now == SetupFileParse(calls[i].after).libdefines
            IN  /\ Maps(now, calls[i].name, calls[i].path)
                /\ \A j \in 1..Len(now) :
                       now[j][1] # calls[i].name => Maps(was, now[j][1], now[j][2])
                /\ \A j \in 1..Len(was) :
                       was[j][1] # calls[i].name => Maps(now, was[j][1], was[j][2])

\* C12 as stated: create_library runs as one step (parse, update and write
\* are not interleaved with another call's); once the calls made so far have
\* registered libraries of different names, in whatever order, the setup
\* file maps every one of them to its path.
C12_NoLostRegistration ==
    (/\ Len(calls) = ncalls
     /\ \A i, j \in 1..Len(calls) : i # j => calls[i].name # calls[j].name)
        => \A i \in 1..Len(calls) :
               Maps(SetupFileParse(setupFile).libdefines, calls[i].name, calls[i].path)

-----------------------------------------------------------------------------
(* Compile-command builders.  A token is a text; its characters are kept   *)
(* apart only where the code looks at them (macro values), the rest of a   *)
(* token is written in pieces such as <<"-work ", name>>.                  *)

RECURSIVE Flatten(_)
\* the concatenation of a sequence of sequences
Flatten(ss) == IF ss = <<>> THEN <<>> ELSE ss[1] \o Flatten(Tail(ss))

\* self._prefix and self._output_path of the adapters
Prefix == <<"/tools">>
OutputParent == <<"/out">>
OutputPath(tool) == OutputParent \o <<"/", tool>>

\* join(self._prefix, tool)
Binary(tool) == Prefix \o <<"/", tool>>

\* source files: name is dir/base+ext
SourceFiles ==
    { [dir |-> "/s", base |-> "a", ext |-> ".sv", library |-> "lib",
       kind |-> "verilog", vhdl_standard |-> "none",
       include_dirs |-> << <<"/inc">> >>,
       defines |-> << <<"W", <<"8">>>> >>,
       flags |-> <<>>],
      [dir |-> "/s", base |-> "b", ext |-> ".sv", library |-> "lib",
       kind |-> "verilog", vhdl_standard |-> "none",
       include_dirs |-> <<>>,
       defines |-> << <<"M", <<"a", "\"", "b">>>>, <<"N", <<>>>> >>,
       flags |-> << <<"-x">> >>],
      [dir |-> "/t", base |-> "c", ext |-> ".v", library |-> "lib2",
       kind |-> "verilog", vhdl_standard |-> "none",
       include_dirs |-> <<>>, defines |-> <<>>, flags |-> <<>>],
      [dir |-> "/s", base |-> "d", ext |-> ".vhd", library |-> "lib",
       kind |-> "vhdl", vhdl_standard |-> "2008",
       include_dirs |-> <<>>, defines |-> <<>>, flags |-> << <<"-y">> >>],
      [dir |-> "/t", base |-> "e", ext |-> ".vhd", library |-> "lib2",
       kind |-> "vhdl", vhdl_standard |-> "93",
       include_dirs |-> <<>>, defines |-> <<>>, flags |-> <<>>],
      [dir |-> "/t", base |-> "f", ext |-> ".txt", library |-> "lib2",
       kind |-> "other", vhdl_standard |-> "none",
       include_dirs |-> <<>>, defines |-> <<>>, flags |-> <<>>] }

\* a dispatch that takes every file for a Verilog file
IsAnyFile(f) == TRUE

\* source_file.is_vhdl and source_file.is_any_verilog, as
\* compile_source_file_command reads them
IsVhdl(f) == f.kind = "vhdl"
IsAnyVerilog(f) == f.kind = "verilog"

\* source_file.name, os.path.dirname and os.path.basename of it
FileName(f) == <<f.dir, "/", f.base, f.ext>>
DirName(f) == <<f.dir>>
BaseName(f) == <<f.base, f.ext>>
\* os.path.splitext(os.path.basename(source_file.name))[0]
Stem(f) == <<f.base>>

\* hash_string(str(pathlib.Path(source_file.name).parent)): one digest per
\* parent directory, different for different directories
HashString(text) == <<"sha1(">> \o text \o <<")">>

\* a replace that also doubles the backslash it puts before the quote
EscapeTwice(value) ==
    Flatten([i \in 1..Len(value) |->
                IF value[i] = "\"" THEN <<"\\", "\\", "\"">> ELSE <<value[i]>>])

\* value.replace('"', '\\"')
EscapeQuotes(value) ==
    Flatten([i \in 1..Len(value) |->
                IF value[i] = "\"" THEN <<"\\", "\"">> ELSE <<value[i]>>])

\* write_file(name, contents) on the .args files
WriteFile(files, name, contents) ==
    [n \in (DOMAIN files) \cup {name} |-> IF n = name THEN contents ELSE files[n]]

\* exit statuses of an external process
ExitStatuses == {0, 1}

\* run_command(command, cwd): runs the process, waits for it and returns
\* True when its exit status is zero, False otherwise
RunCommand(status) == status = 0

\* _vhdl_std_opt(vhdl_standard)
VhdlStdOpt(std) ==
    CASE std = "2002" -> <<"-vhdl08">>
      [] std = "2008" -> <<"-vhdl08">>
      [] std = "2019" -> <<"-vhdl08">>
      [] std = "93"   -> <<>>

\* the preprocessed output of a source file (Icarus and Vivado)
PreprocessedDir(f) ==
    OutputParent \o <<"/", "preprocessed", "/">> \o HashString(DirName(f))
PreprocessedPath(f) == PreprocessedDir(f) \o <<"/">> \o BaseName(f)

\* VCS compile_vhdl_file_command: the args list
VcsVhdlArgs(f, level) ==
    << <<"-kdb">>, <<"-sparse_mem 20">>, VhdlStdOpt(f.vhdl_standard),
       <<"-work ", f.library>>,
       <<"-l ">> \o OutputPath("vcs") \o <<"/vcs_compile_vhdl_file_", f.library, ".log">> >>
    \o (IF level # "debug" THEN << <<"-q">>, <<"-nc">> >> ELSE << <<"-verbose">> >>)
    \o f.flags
    \o << FileName(f) >>

VcsVhdlArgsFile(f) ==
    OutputPath("vcs") \o <<"/vcs_compile_vhdl_file_", f.library, ".args">>

\* VCS compile_verilog_file_command: the args list
VcsVerilogArgs(f, level) ==
    << <<"-kdb">>, <<"-sverilog">>, <<"+v2k">>, <<"-work ", f.library>> >>
    \o f.flags
    \o << <<"-l ">> \o OutputPath("vcs") \o <<"/vcs_compile_verilog_file_", f.library, ".log">> >>
    \o (IF level # "debug" THEN << <<"-q">>, <<"-nc">> >>
        ELSE << <<"-V">>, <<"-notice">>, <<"+libverbose">> >>)
    \o [i \in 1..Len(f.include_dirs) |-> <<"+incdir+">> \o f.include_dirs[i]]
    \o [i \in 1..Len(f.defines) |->
           <<"+define+", f.defines[i][1], "=">> \o EscapeQuotes(f.defines[i][2])]
    \o << <<"+incdir+">> \o DirName(f), FileName(f) >>

VcsVerilogArgsFile(f) ==
    OutputPath("vcs") \o <<"/vcs_compile_verilog_file_", f.library, ".args">>

\* what the VCS builders return
VcsCommand(cmd, args) == <<cmd, <<"-full64">> >> \o args

\* Icarus compile_verilog_file_command: the args list
IverilogArgs(f) ==
    << <<"-E">>, <<"-g2012">>, <<"-o">>, PreprocessedPath(f) >>
    \o f.flags
    \o Flatten([i \in 1..Len(f.include_dirs) |-> << <<"-I">>, f.include_dirs[i] >>])
    \o Flatten([i \in 1..Len(f.defines) |->
           << <<"-D">>, <<f.defines[i][1], "=">> \o EscapeQuotes(f.defines[i][2]) >>])
    \o << <<"-I">>, DirName(f), FileName(f) >>

IverilogArgsFile(f) ==
    OutputPath("iverilog") \o <<"/iverilog_compile_verilog_file_", f.library, ".args">>

\* a builder that returns the command without its first flag
IverilogCommandShort(cmd, args) == <<cmd>> \o Tail(args)

\* what the Icarus builder returns
IverilogCommand(cmd, args) == <<cmd>> \o args

\* Vivado compile_verilog_file_command: the args list
VivadoArgs(f) ==
    << <<"-sv">>, <<"-work">>,
       <<f.library, "=">> \o OutputPath("vivado") \o <<"/", "libraries", "/", f.library>> >>
    \o f.flags
    \o Flatten([i \in 1..Len(f.include_dirs) |-> << <<"-i">>, f.include_dirs[i] >>])
    \o Flatten([i \in 1..Len(f.defines) |->
           << <<"-d">>, <<f.defines[i][1], "=">> \o EscapeQuotes(f.defines[i][2]) >>])
    \o << <<"-i">>, DirName(f), FileName(f), <<"-log">>,
          OutputPath("vivado") \o <<"/", "xvlog_">> \o Stem(f) \o <<".log">> >>

VivadoArgsFile(f) ==
    OutputPath("vivado") \o <<"/xvlog_", f.library, ".args">>

\* what the Vivado builder returns
VivadoCommand(cmd, argsfile) == <<cmd, <<"-f">>, argsfile>>

\* one entry of cmds
Call(tool, f, outcome, argsfile, written, cmd) ==
    [tool |-> tool, file |-> f, outcome |-> outcome,
     argsfile |-> argsfile, written |-> written, cmd |-> cmd]

\* __init__ of the three adapters.  A run is a sequence of compile-command
\* calls that an elaborate call may end.
InitCompile ==
    /\ setupFile = HeaderContents /\ sf = <<>> /\ trace = <<>>
    /\ VcsIdle
    /\ argsFiles = <<>>
    /\ cmds = <<>>
    /\ iverilog = [source_files |-> <<>>, compile_options |-> <<>>]
    /\ vivado = [source_files |-> <<>>, libraries |-> <<>>]
    /\ log_level \in {"info", "debug"}
    /\ elabs = <<>>
    /\ SimIdle

\* VCSInterface.compile_source_file_command on a VHDL file
VcsCompileVhdl ==
    \E f \in SourceFiles :
        /\ Len(cmds) < MaxCompiles /\ elabs = <<>>
        /\ IsVhdl(f)
        /\ LET args == VcsVhdlArgs(f, log_level)
               text == Join(args, <<NL>>)
           IN /\ argsFiles' = WriteFile(argsFiles, VcsVhdlArgsFile(f), text)
              /\ cmds' = Append(cmds, Call("vcs", f, "returned", VcsVhdlArgsFile(f), text,
                                           VcsCommand(Binary("vhdlan"), args)))
        /\ UNCHANGED <<setupVars, vcsVars, iverilog, vivado, log_level, elabs, simVars>>

\* VCSInterface.compile_source_file_command on a Verilog file, one of files
VcsCompileVerilogOf(files) ==
    \E f \in files :
        /\ Len(cmds) < MaxCompiles /\ elabs = <<>>
        /\ ~IsVhdl(f) /\ IsAnyVerilog(f)
        /\ LET args == VcsVerilogArgs(f, log_level)
               text == Join(args, <<NL>>)
           IN /\ argsFiles' = WriteFile(argsFiles, VcsVerilogArgsFile(f), text)
              /\ cmds' = Append(cmds, Call("vcs", f, "returned", VcsVerilogArgsFile(f), text,
                                           VcsCommand(Binary("vlogan"), args)))
        /\ UNCHANGED <<setupVars, vcsVars, iverilog, vivado, log_level, elabs, simVars>>

VcsCompileVerilog == VcsCompileVerilogOf(SourceFiles)

\* VCSInterface.compile_source_file_command on any other file
VcsCompileOther ==
    \E f \in SourceFiles :
        /\ Len(cmds) < MaxCompiles /\ elabs = <<>>
        /\ ~IsVhdl(f) /\ ~IsAnyVerilog(f)
        /\ cmds' = Append(cmds, Call("vcs", f, "CompileError", <<>>, <<>>, <<>>))
        /\ UNCHANGED <<setupVars, vcsVars, argsFiles, iverilog, vivado, log_level, elabs, simVars>>

\* IVerilogInterface.compile_source_file_command on a Verilog file, one of files
IverilogCompileVerilogOf(files) ==
    \E f \in files :
        /\ Len(cmds) < MaxCompiles /\ elabs = <<>>
        /\ IsAnyVerilog(f)
        /\ LET args == IverilogArgs(f)
               text == Join(args, <<NL>>) \o <<NL>>
           IN /\ argsFiles' = WriteFile(argsFiles, IverilogArgsFile(f), text)
              /\ cmds' = Append(cmds, Call("iverilog", f, "returned", IverilogArgsFile(f), text,
                                           IverilogCommand(Binary("iverilog"), args)))
        /\ dirs' = dirs \cup {PreprocessedDir(f)}
        /\ iverilog' = [source_files |-> Append(iverilog.source_files, PreprocessedPath(f)),
                        compile_options |-> iverilog.compile_options \o f.flags]
        /\ UNCHANGED <<setupVars, mapped, calls, ncalls, vivado, log_level, elabs, simVars>>

IverilogCompileVerilog == IverilogCompileVerilogOf(SourceFiles)

\* IVerilogInterface.compile_source_file_command on any other file
IverilogCompileOther ==
    \E f \in SourceFiles :
        /\ Len(cmds) < MaxCompiles /\ elabs = <<>>
        /\ ~IsAnyVerilog(f)
        /\ cmds' = Append(cmds, Call("iverilog", f, "CompileError", <<>>, <<>>, <<>>))
        /\ UNCHANGED <<setupVars, vcsVars, argsFiles, iverilog, vivado, log_level, elabs, simVars>>

\* VivadoInterface.compile_source_file_command on a Verilog file, one of files
VivadoCompileVerilogOf(files) ==
    \E f \in files :
        /\ Len(cmds) < MaxCompiles /\ elabs = <<>>
        /\ IsAnyVerilog(f)
        /\ LET args == VivadoArgs(f)
               text == Join(args, <<NL>>)
           IN /\ argsFiles' = WriteFile(argsFiles, VivadoArgsFile(f), text)
              /\ cmds' = Append(cmds, Call("vivado", f, "returned", VivadoArgsFile(f), text,
                                           VivadoCommand(Binary("xvlog"), VivadoArgsFile(f))))
        /\ dirs' = dirs \cup {PreprocessedDir(f)}
        /\ vivado' = [source_files |-> Append(vivado.source_files, PreprocessedPath(f)),
                      libraries |-> DictSet(vivado.libraries, Stem(f), f.library)]
        /\ UNCHANGED <<setupVars, mapped, calls, ncalls, iverilog, log_level, elabs, simVars>>

VivadoCompileVerilog == VivadoCompileVerilogOf(SourceFiles)

\* VivadoInterface.compile_source_file_command on any other file
VivadoCompileOther ==
    \E f \in SourceFiles :
        /\ Len(cmds) < MaxCompiles /\ elabs = <<>>
        /\ ~IsAnyVerilog(f)
        /\ cmds' = Append(cmds, Call("vivado", f, "CompileError", <<>>, <<>>, <<>>))
        /\ UNCHANGED <<setupVars, vcsVars, argsFiles, iverilog, vivado, log_level, elabs, simVars>>

\* the output_path argument of elaborate
ElabOutput == OutputParent \o <<"/", "elab">>

\* target_filename arguments of elaborate: base and extension
Targets == { [base |-> "a", ext |-> ".sv"], [base |-> "z", ext |-> ".sv"] }

\* what os.listdir('vunit_out/vivado/libraries') can return
Listings == { <<>>, <<"lib2", "lib">> }

\* one entry of elabs
Elab(tool, target, argsfile, written, cmd, result) ==
    [tool |-> tool, target |-> target, argsfile |-> argsfile,
     written |-> written, cmd |-> cmd, result |-> result]

\* IVerilogInterface.elaborate: the args list
IverilogElabArgs(t, options, files) ==
    << <<"-g2012">>, <<"-o">>, ElabOutput \o <<"/", t.base, t.ext>> >>
    \o options \o files

\* IVerilogInterface.elaborate(output_path, target_filename)
IverilogElaborate ==
    \E t \in Targets :
        /\ elabs = <<>>
        /\ LET args == IverilogElabArgs(t, iverilog.compile_options, iverilog.source_files)
               argsfile == OutputPath("iverilog")
                           \o <<"/iverilog_elaborate_", t.base, t.ext, ".args">>
               text == Join(args, <<NL>>) \o <<NL>>
           IN /\ argsFiles' = WriteFile(argsFiles, argsfile, text)
              /\ elabs' = Append(elabs, Elab("iverilog", t, argsfile, text,
                                             <<Binary("iverilog")>> \o args, "returned"))
        /\ UNCHANGED <<setupVars, vcsVars, cmds, iverilog, vivado, log_level, simVars>>

\* VCSInterface.elaborate: creates output_path and copies the setup file
\* into it; _generic_args (line 271) then adds to its local args, which
\* nothing has assigned, and raises UnboundLocalError before vcs.generics
\* and vcs.args are written
VcsElaborate ==
    \E t \in Targets :
        /\ elabs = <<>>
        /\ dirs' = dirs \cup {ElabOutput}
        /\ argsFiles' = WriteFile(argsFiles, ElabOutput \o <<"/synopsys_sim.setup">>,
                                  setupFile)
        /\ elabs' = Append(elabs, Elab("vcs", t, <<>>, <<>>, <<>>, "UnboundLocalError"))
        /\ UNCHANGED <<setupVars, mapped, calls, ncalls, cmds, iverilog, vivado,
                       log_level, simVars>>

\* VivadoInterface.elaborate when vunit_out/vivado/libraries does not exist:
\* os.listdir raises FileNotFoundError
VivadoElaborateNoDir ==
    \E t \in Targets :
        /\ elabs = <<>>
        /\ elabs' = Append(elabs, Elab("vivado", t, <<>>, <<>>, <<>>, "FileNotFoundError"))
        /\ UNCHANGED <<setupVars, vcsVars, argsFiles, cmds, iverilog, vivado,
                       log_level, simVars>>

\* VivadoInterface.elaborate on a target no compiled file is named after:
\* self._libraries[...] raises KeyError
VivadoElaborateUnknown ==
    \E t \in Targets :
        /\ elabs = <<>>
        /\ ~DictHas(vivado.libraries, <<t.base>>)
        /\ elabs' = Append(elabs, Elab("vivado", t, <<>>, <<>>, <<>>, "KeyError"))
        /\ UNCHANGED <<setupVars, vcsVars, argsFiles, cmds, iverilog, vivado,
                       log_level, simVars>>

\* VivadoInterface.elaborate: the args list
VivadoElabArgs(t, listing, libraries) ==
    Flatten([i \in 1..Len(listing) |->
                << <<"-L">>,
                   <<listing[i], "=">> \o OutputPath("vivado")
                       \o <<"/", "libraries", "/", listing[i]>> >>])
    \o << <<DictGet(libraries, <<t.base>>), ".", t.base>>,
          <<"-log">>,
          OutputPath("vivado") \o <<"/", "xelab_", t.base, ".log">> >>

\* VivadoInterface.elaborate(output_path, target_filename)
VivadoElaborate ==
    \E t \in Targets, listing \in Listings, status \in ExitStatuses :
        /\ elabs = <<>>
        /\ DictHas(vivado.libraries, <<t.base>>)
        /\ LET args == VivadoElabArgs(t, listing, vivado.libraries)
               argsfile == OutputPath("vivado") \o <<"/xelab_", t.base, ".args">>
               text == Join(args, <<NL>>) \o <<NL>>
           IN /\ argsFiles' = WriteFile(argsFiles, argsfile, text)
              /\ elabs' = Append(elabs, Elab("vivado", t, argsfile, text,
                                             <<Binary("xelab"), <<"-f">>, argsfile>>,
                                             IF RunCommand(status) THEN "True" ELSE "False"))
        /\ UNCHANGED <<setupVars, vcsVars, cmds, iverilog, vivado, log_level, simVars>>

NextCompile ==
    \/ VcsCompileVhdl
    \/ VcsCompileVerilog
    \/ VcsCompileOther
    \/ IverilogCompileVerilog
    \/ IverilogCompileOther
    \/ VivadoCompileVerilog
    \/ VivadoCompileOther
    \/ IverilogElaborate
    \/ VcsElaborate
    \/ VivadoElaborateNoDir
    \/ VivadoElaborateUnknown
    \/ VivadoElaborate

SpecCompile == InitCompile /\ [][NextCompile]_vars

-----------------------------------------------------------------------------
(* Claims about the compile-command builders *)

C8_OwnArgsFileOnly ==
    \A i, j \in 1..Len(cmds) :
        (/\ i # j
         /\ cmds[i].outcome = "returned" /\ cmds[j].outcome = "returned"
         /\ cmds[i].file # cmds[j].file)
            => argsFiles[cmds[i].argsfile] = cmds[i].written

\* whether the adapter has a builder for source files of this kind
Compiles(tool, kind) ==
    IF tool = "vcs" THEN kind \in {"vhdl", "verilog"} ELSE kind = "verilog"

\* C11: compile_source_file_command on a source file of a kind the adapter
\* cannot compile signals CompileError, returns no command and leaves the
\* .args files, the directories and the adapters' accumulated lists as they
\* were.
C11_UnsupportedKindRejected ==
    [][Len(cmds') = Len(cmds) + 1 =>
          LET c == cmds'[Len(cmds')]
          IN ~Compiles(c.tool, c.file.kind) =>
                /\ c.outcome = "CompileError"
                /\ c.cmd = <<>>
                /\ argsFiles' = argsFiles
                /\ dirs' = dirs
                /\ iverilog' = iverilog
                /\ vivado' = vivado]_vars

\* C11's case: an Icarus adapter that has compiled one file is handed a
\* VHDL file; its list and its .args file are those of the first call
C11_Witness ==
    /\ Len(cmds) = 2
    /\ cmds[1].outcome = "returned" /\ cmds[2].outcome = "CompileError"
    /\ cmds[1].tool = "iverilog" /\ cmds[2].tool = "iverilog"
    /\ cmds[2].file.kind = "vhdl"
    /\ iverilog.source_files = <<PreprocessedPath(cmds[1].file)>>
    /\ argsFiles[cmds[1].argsfile] = cmds[1].written

\* the .args files among the files written
IsArgsFile(name) == name # <<>> /\ name[Len(name)] \in {".args", "/simv.args"}

\* C13 as stated: every .args file on disk ends with a line break, and the
\* lines a compile call wrote are, one by one, the tokens of its list.
C13_ArgsTokenPerLine ==
    /\ \A name \in DOMAIN argsFiles :
           IsArgsFile(name) =>
               argsFiles[name] # <<>> /\ argsFiles[name][Len(argsFiles[name])] = NL
    /\ \A i \in 1..Len(cmds) :
           (cmds[i].outcome = "returned" /\ cmds[i].tool # "vivado") =>
               SplitLines(cmds[i].written)
                   = (IF cmds[i].tool = "vcs" THEN Tail(Tail(cmds[i].cmd))
                      ELSE Tail(cmds[i].cmd))

RECURSIVE FirstCompiled(_, _)
\* the preprocessed outputs of the files Icarus compiled among the calls cs,
\* one per file not in seen, in the order of its first compile
FirstCompiled(cs, seen) ==
    IF cs = <<>> THEN <<>>
    ELSE IF cs[1].tool = "iverilog" /\ cs[1].outcome = "returned"
            /\ cs[1].file \notin seen
         THEN <<PreprocessedPath(cs[1].file)>>
              \o FirstCompiled(Tail(cs), seen \cup {cs[1].file})
         ELSE FirstCompiled(Tail(cs), seen)

\* whether a token is the preprocessed output of some source file
IsArtifact(token) == \E f \in SourceFiles : token = PreprocessedPath(f)

\* C16 as stated: the preprocessed outputs in the vector Icarus elaborate
\* returns are those of the source files compiled so far, one entry per
\* file, in the order the files were first compiled.
C16_ElaborateListsCompiled ==
    \A i \in 1..Len(elabs) :
        elabs[i].tool = "iverilog" =>
            SelectSeq(elabs[i].cmd, IsArtifact) = FirstCompiled(cmds, {})

-----------------------------------------------------------------------------
(* The define flag of a macro: each adapter's Verilog builder applied once *)
(* to a file with one macro, whose value is any text of letters, double    *)
(* quotes and backslashes                                                  *)

MacroChars == {"a", "\"", "\\"}
MacroValues == Texts(MacroChars, MaxValueLen)

\* source_file.defines = {'M': value} for every value
MacroFiles ==
    { [dir |-> "/s", base |-> "m", ext |-> ".sv", library |-> "lib",
       kind |-> "verilog", vhdl_standard |-> "none",
       include_dirs |-> <<>>, defines |-> << <<"M", v>> >>, flags |-> <<>>] :
      v \in MacroValues }

VcsDefine == cmds = <<>> /\ VcsCompileVerilogOf(MacroFiles)
IverilogDefine == cmds = <<>> /\ IverilogCompileVerilogOf(MacroFiles)
VivadoDefine == cmds = <<>> /\ VivadoCompileVerilogOf(MacroFiles)

NextDefine == VcsDefine \/ IverilogDefine \/ VivadoDefine

SpecDefine == InitCompile /\ [][NextDefine]_vars

RECURSIVE Quotes(_, _)
\* number of double quotes among the first n characters of v
Quotes(v, n) ==
    IF n = 0 THEN 0 ELSE Quotes(v, n - 1) + (IF v[n] = "\"" THEN 1 ELSE 0)

\* out is v with one backslash put before each double quote, every other
\* character copied
EscapedOnce(v, out) ==
    /\ Len(out) = Len(v) + Quotes(v, Len(v))
    /\ \A i \in 1..Len(v) :
           LET p == i + Quotes(v, i - 1)
           IN IF v[i] = "\"" THEN out[p] = "\\" /\ out[p + 1] = "\""
              ELSE out[p] = v[i]

\* the text an adapter puts before the value in the define flag of macro key
DefinePrefix(tool, key) ==
    (IF tool = "vcs" THEN <<"+define+">> ELSE <<>>) \o <<key, "=">>

\* C14: for every macro of a compiled file, exactly one token written by
\* the call starts with the macro's name and "=", and what follows is the
\* macro value with one backslash before each double quote and every other
\* character copied unchanged.
C14_QuoteEscapedOnce ==
    \A i \in 1..Len(cmds) :
        cmds[i].outcome = "returned" =>
            LET c == cmds[i]
                tokens == SplitLines(c.written)
            IN \A k \in 1..Len(c.file.defines) :
                  LET pre  == DefinePrefix(c.tool, c.file.defines[k][1])
                      hits == {j \in 1..Len(tokens) :
                                  /\ Len(tokens[j]) >= Len(pre)
                                  /\ SubSeq(tokens[j], 1, Len(pre)) = pre}
                  IN /\ Cardinality(hits) = 1
                     /\ \A j \in hits :
                            EscapedOnce(c.file.defines[k][2],
                                        SubSeq(tokens[j], Len(pre) + 1, Len(tokens[j])))

\* C14's case: a flag was generated, and written to the .args file, for a
\* macro value in which a double quote follows a backslash or another
\* double quote
C14_Witness ==
    /\ \E i \in 1..Len(cmds) :
           /\ cmds[i].outcome = "returned"
           /\ \E k \in 1..Len(cmds[i].file.defines) :
                  LET v == cmds[i].file.defines[k][2]
                  IN \E n \in 1..(Len(v) - 1) :
                        v[n] \in {"\\", "\""} /\ v[n + 1] = "\""
    /\ argsFiles # <<>>

-----------------------------------------------------------------------------
(* simulate                                                                *)

\* test_suite_name arguments, character by character
TestNames ==
    { <<"l", ".", "t">>,
      <<"l", ".", "t", ":", "T", "#", "1", " ", "(", "x", ")">> }

\* string.printable, restricted to the characters of the model ("U+00E9",
\* the letter e with an acute accent, is not in it)
LegalChars ==
    {"l", "t", "T", "x", "1", ".", ":", "#", " ", "(", ")", "\t", NL, "/", "\\", "_"}

\* ILLEGAL_CHARS = ' <>"|:*%?\\/#&;()'
IllegalChars ==
    {" ", "<", ">", "\"", "|", ":", "*", "%", "?", "\\", "/", "#", "&", ";", "(", ")"}

\* a test_name that keeps every printable character
SanitizePrintable(name) ==
    [i \in 1..Len(name) |-> IF name[i] \in LegalChars THEN name[i] ELSE "_"]
    \o <<"_">>

\* test_name of IVerilogInterface.simulate
Sanitize(name) ==
    [i \in 1..Len(name) |->
        IF name[i] \in LegalChars /\ name[i] \notin IllegalChars THEN name[i] ELSE "_"]
    \o <<"_">>

\* index of the last "." of text, 0 when it has none
LastDot(text) ==
    IF \E i \in 1..Len(text) : text[i] = "."
    THEN CHOOSE i \in 1..Len(text) :
             text[i] = "." /\ \A j \in (i+1)..Len(text) : text[j] # "."
    ELSE 0

\* test_suite_name.split(".")[-1]
LastPart(text) == SubSeq(text, LastDot(text) + 1, Len(text))

\* the output_path argument of simulate and its dirname
TestOutput == OutputParent \o <<"/", "test_output", "/", "t">>
TestOutputDir == OutputParent \o <<"/", "test_output">>

\* one entry of sims: runs lists the run_command calls, each with the binary
\* it is to start, the vector handed over and the exit status
SimCall(tool, name, elaborate_only, gui, runs, result) ==
    [tool |-> tool, name |-> name, elaborate_only |-> elaborate_only,
     gui |-> gui, runs |-> runs, result |-> result]

\* _create_ucli_macro(output_path, launch_gui): the contents of simv.tcl
UcliMacro(launch_gui) ==
    Join((IF launch_gui THEN <<>>
          ELSE << <<"set fid [dump -file vcdplus.vpd -type VPD]">>,
                  <<"dump -fid $fid -depth 0">> >>)
         \o << <<"run">>, <<"quit">> >>, <<NL>>)

\* simvargs of VCSInterface.simulate; sim_options holds no vcs.simv_flags
VcsSimvArgs(name, coverage, launch_gui) ==
    (IF coverage THEN << <<"-cm_name">>, name >> ELSE <<>>)
    \o (IF launch_gui THEN <<>>
        ELSE << <<"+">> \o LastPart(name),
                <<"+enabled_test_cases=">> \o LastPart(name),
                <<"+output_path=">> \o TestOutput >>)

\* args of VivadoInterface.simulate
VivadoXsimArgs(name, gui) ==
    (IF gui THEN << <<"-gui">> >> ELSE <<>>)
    \o << <<"-runall">>,
          <<"-testplusarg">>, <<"\"enabled_test_cases=">> \o LastPart(name) \o <<"\"">>,
          <<"-testplusarg">>, <<"\"output_path=">> \o TestOutput \o <<"/", "\"">>,
          <<"lib", ".", "tb">>,
          <<"-log">>, TestOutput \o <<"/", "xsim.log">> >>

InitSim ==
    /\ setupFile = HeaderContents /\ sf = <<>> /\ trace = <<>>
    /\ VcsIdle
    /\ CompileIdle
    /\ sims = <<>>
    /\ base_attrs \in BOOLEAN

\* VCSInterface.simulate when neither __init__ nor the base class has set
\* self._coverage_files: line 291 raises AttributeError
VcsSimulateNoAttr ==
    \E name \in TestNames, elaborate_only \in BOOLEAN, gui \in BOOLEAN :
        /\ Len(sims) < MaxSims
        /\ ~base_attrs
        /\ sims' = Append(sims, SimCall("vcs", name, elaborate_only, gui, <<>>,
                                        "AttributeError"))
        /\ UNCHANGED <<setupVars, vcsVars, compileVars, base_attrs>>

\* VCSInterface.simulate when self._coverage_files and self._binaries_path
\* exist.  cmd is a list (line 294), so the vector handed to run_command at
\* line 314 starts with that list.
VcsSimulate ==
    \E name \in TestNames, elaborate_only \in BOOLEAN, gui \in BOOLEAN,
       coverage \in BOOLEAN, status \in ExitStatuses :
        /\ Len(sims) < MaxSims
        /\ base_attrs
        /\ LET launch_gui == gui /\ ~elaborate_only
               simvargs   == VcsSimvArgs(name, coverage, launch_gui)
               cmd        == << Binary("simv") >>
                             \o (IF launch_gui THEN << <<"-gui">> >> ELSE <<>>)
               ok         == RunCommand(status)
           IN /\ argsFiles' =
                    WriteFile(WriteFile(argsFiles, TestOutput \o <<"/simv.tcl">>,
                                        UcliMacro(launch_gui)),
                              TestOutput \o <<"/simv.args">>, Join(simvargs, <<NL>>))
              /\ sims' = Append(sims,
                    IF elaborate_only
                    THEN SimCall("vcs", name, elaborate_only, gui, <<>>, "True")
                    ELSE SimCall("vcs", name, elaborate_only, gui,
                                 << [binary |-> Binary("simv"),
                                     command |-> <<cmd>> \o simvargs,
                                     status |-> status] >>,
                                 IF ok THEN "True" ELSE "False"))
        /\ UNCHANGED <<setupVars, vcsVars, cmds, iverilog, vivado, log_level, elabs, base_attrs>>

\* VivadoInterface.simulate
VivadoSimulate ==
    \E name \in TestNames, elaborate_only \in BOOLEAN, gui \in BOOLEAN,
       status \in ExitStatuses :
        /\ Len(sims) < MaxSims
        /\ LET args     == VivadoXsimArgs(name, gui)
               argsfile == TestOutput \o <<"/xsim_">> \o name \o <<".args">>
               ok       == RunCommand(status)
           IN /\ argsFiles' = WriteFile(argsFiles, argsfile, Join(args, <<NL>>) \o <<NL>>)
              /\ sims' = Append(sims,
                    SimCall("vivado", name, elaborate_only, gui,
                            << [binary |-> Binary("xsim"),
                                command |-> <<Binary("xsim"), <<"-file">>, argsfile>>,
                                status |-> status] >>,
                            IF ok THEN "True" ELSE "False"))
        /\ UNCHANGED <<setupVars, vcsVars, cmds, iverilog, vivado, log_level, elabs, base_attrs>>

\* IVerilogInterface.simulate on a test_suite_name among names: creates the
\* elab directories, then line 196 reads the undefined name generics and
\* raises NameError
IverilogSimulateOf(names) ==
    \E name \in names, elaborate_only \in BOOLEAN :
        /\ Len(sims) < MaxSims
        /\ LET vvp_path == TestOutputDir \o <<"/", "elab", "/">> \o Sanitize(name)
           IN dirs' = dirs \cup {vvp_path, vvp_path \o <<"/", "dir">>}
        /\ sims' = Append(sims, SimCall("iverilog", name, elaborate_only, FALSE, <<>>,
                                        "NameError"))
        /\ UNCHANGED <<setupVars, mapped, calls, ncalls, compileVars, base_attrs>>

IverilogSimulate == IverilogSimulateOf(TestNames)

NextSim ==
    \/ VivadoSimulate
    \/ IverilogSimulate
    \/ VcsSimulateNoAttr
    \/ VcsSimulate

SpecSim == InitSim /\ [][NextSim]_vars

-----------------------------------------------------------------------------
(* Claims about simulate *)

\* the simulation binaries
SimBinaries == {Binary("simv"), Binary("xsim"), Binary("vvp")}

\* the runs of a simulate call that started a simulation binary
SimRuns(call) == {k \in 1..Len(call.runs) : call.runs[k].binary \in SimBinaries}

\* C9 as stated: a simulate call with elaborate_only set returns success
\* and runs no simulation binary.
C9_ElaborateOnlyRunsNothing ==
    \A i \in 1..Len(sims) :
        sims[i].elaborate_only =>
            sims[i].result = "True" /\ SimRuns(sims[i]) = {}

\* C10 as stated: a simulate call without elaborate_only runs the
\* simulation binary exactly once and returns success exactly when that
\* process exits with status zero.
C10_RunsOnceReportsStatus ==
    \A i \in 1..Len(sims) :
        ~sims[i].elaborate_only =>
            /\ Cardinality(SimRuns(sims[i])) = 1
            /\ sims[i].result \in {"True", "False"}
            /\ \A k \in SimRuns(sims[i]) :
                   (sims[i].result = "True") <=> (sims[i].runs[k].status = 0)

-----------------------------------------------------------------------------
(* The sanitizer of test identifiers: IVerilogInterface.simulate applied   *)
(* once to any identifier of letters, dots, separators, blanks, tabs and   *)
(* characters that are not printable                                       *)

SanitizeChars == {"t", ".", "/", "\\", " ", "\t", "U+00E9"}
SanitizeNames == Texts(SanitizeChars, MaxNameLen)

SanitizeSimulate == sims = <<>> /\ IverilogSimulateOf(SanitizeNames)

NextSanitize == SanitizeSimulate

SpecSanitize == InitSim /\ [][NextSanitize]_vars

\* the directory simulate makes for test_name
ElabDir(test_name) == TestOutputDir \o <<"/", "elab", "/">> \o test_name

\* the test_name parts of the directories made for a test_suite_name
MadeFor(name) ==
    {SubSeq(d, Len(ElabDir(<<>>)) + 1, Len(d)) :
        d \in {e \in dirs : /\ Len(e) = Len(ElabDir(<<>>)) + Len(name) + 1
                            /\ SubSeq(e, 1, Len(ElabDir(<<>>))) = ElabDir(<<>>)}}

\* C15: the directory simulate makes is named after a test_name one
\* character longer than the test identifier: position by position the
\* identifier's character when it is printable and not special, "_"
\* otherwise, then one more "_".  The test_name has no character outside
\* that set, no path separator, and is neither empty nor "." nor "..".
C15_SanitizedName ==
    \A i \in 1..Len(sims) :
        sims[i].tool = "iverilog" =>
            LET name == sims[i].name
            IN  /\ MadeFor(name) # {}
                /\ \A out \in MadeFor(name) :
                       /\ Len(out) = Len(name) + 1
                       /\ \A k \in 1..Len(name) :
                              out[k] = IF name[k] \in LegalChars \ IllegalChars
                                       THEN name[k] ELSE "_"
                       /\ out[Len(out)] = "_"
                       /\ \A k \in 1..Len(out) : out[k] \in LegalChars \ IllegalChars
                       /\ \A k \in 1..Len(out) : out[k] \notin {"/", "\\"}
                       /\ out \notin {<<>>, <<".">>, <<".", ".">>}

\* C15's case: an identifier with a character that is kept, a path
\* separator and a character that is not printable was sanitized
C15_Witness ==
    \E i \in 1..Len(sims) :
        /\ sims[i].tool = "iverilog"
        /\ \E a, b, c \in 1..Len(sims[i].name) :
               /\ sims[i].name[a] \in {"t", "."}
               /\ sims[i].name[b] \in {"/", "\\"}
               /\ sims[i].name[c] \notin LegalChars
        /\ MadeFor(sims[i].name) # {}

====
